---- MODULE Spec2Model ----
(***************************************************************************)
(* A model of the site-metrics and site-tests scripts of mkdocs:           *)
(*   src/src/site-metrics/advanced-metrics.py  (class TextbookAnalyzer)    *)
(*   src/src/site-tests/check-sites.py         (infer_github_user_repo,    *)
(*                                               main)                     *)
(* Text is a sequence of one-character strings; the regular expressions of *)
(* the scripts are modelled by what Python's re module does with them.     *)
(***************************************************************************)
EXTENDS Integers, Sequences, FiniteSets, TLC

VARIABLES
    tree,                 \* the files and directories under <repo>/docs
    config,               \* the state of <repo>/mkdocs.yml
    pc,                   \* where analyze() is
    pending,              \* _count_words: the md files not yet processed
    total_words,          \* _count_words: total_words
    basic_metrics,        \* result of _get_basic_metrics()
    content_structure,    \* result of _analyze_content_structure()
    engagement_features,  \* result of _analyze_engagement_features()
    metrics,              \* the report analyze() returns
    sites,                \* check-sites main(): the github_repo urls still to check
    site_pc,              \* where main() of check-sites is
    user_repo,            \* check-sites main(): user, repo of the current site
    results               \* check-sites main(): the five check results printed

vars == <<tree, config, pc, pending, total_words, basic_metrics, content_structure,
          engagement_features, metrics, sites, site_pc, user_repo, results>>

analyzer_vars == <<tree, config, pc, pending, total_words, basic_metrics,
                   content_structure, engagement_features, metrics>>

sites_vars == <<sites, site_pc, user_repo, results>>

(***************************************************************************)
(* Text helpers.                                                           *)
(***************************************************************************)

\* Python's str.isspace / the regex class \s, on the characters of the model
IsSpace(c) == c \in {" ", "\t", "\n", "\r", "\f"}

\* the regex class [a-zA-Z0-9]
AlnumChars ==
    {"a","b","c","d","e","f","g","h","i","j","k","l","m","n","o","p","q","r","s",
     "t","u","v","w","x","y","z","A","B","C","D","E","F","G","H","I","J","K","L",
     "M","N","O","P","Q","R","S","T","U","V","W","X","Y","Z","0","1","2","3","4",
     "5","6","7","8","9"}

Min(S) == CHOOSE x \in S : \A y \in S : x <= y

Max0(S) == IF S = {} THEN 0 ELSE CHOOSE x \in S : \A y \in S : y <= x

\* the literal p occurs in s at position i
MatchAt(s, i, p) ==
    /\ i >= 1
    /\ i + Len(p) - 1 <= Len(s)
    /\ \A k \in 1..Len(p) : s[i + k - 1] = p[k]

\* the first position >= from where the literal p occurs in s, 0 when none
Find(s, p, from) ==
    LET C == {j \in from..(Len(s) - Len(p) + 1) : MatchAt(s, j, p)}
    IN  IF C = {} THEN 0 ELSE Min(C)

\* the first position >= from of a character of s that satisfies P, 0 when none
FindChar(P(_), s, from) ==
    LET C == {j \in from..Len(s) : P(s[j])}
    IN  IF C = {} THEN 0 ELSE Min(C)

StartsWith(s, p) == MatchAt(s, 1, p)

EndsWith(s, p) == Len(p) <= Len(s) /\ MatchAt(s, Len(s) - Len(p) + 1, p)

Contains(s, p) == Find(s, p, 1) # 0

\* re.sub(pattern, repl, s): MatchEnd(s, i) is the last position of the
\* pattern's match that starts at i, 0 when it does not match there; the scan
\* goes left to right and resumes after each match
RECURSIVE ReSub(_, _, _, _)
ReSub(MatchEnd(_, _), repl, s, i) ==
    IF i > Len(s) THEN <<>>
    ELSE LET e == MatchEnd(s, i)
         IN  IF e >= i THEN repl \o ReSub(MatchEnd, repl, s, e + 1)
             ELSE <<s[i]>> \o ReSub(MatchEnd, repl, s, i + 1)

\* len(re.findall(pattern, s))
RECURSIVE ReCount(_, _, _)
ReCount(MatchEnd(_, _), s, i) ==
    IF i > Len(s) THEN 0
    ELSE LET e == MatchEnd(s, i)
         IN  IF e >= i THEN 1 + ReCount(MatchEnd, s, e + 1)
             ELSE ReCount(MatchEnd, s, i + 1)

Hy3 == <<"-", "-", "-">>
\* SANY cannot lex U+0060 inside a string: the character is written BACKTICK
Backtick == "BACKTICK"

Fence == <<Backtick, Backtick, Backtick>>
Bang3 == <<"!", "!", "!">>
Hash4 == <<"#", "#", "#", "#">>

(***************************************************************************)
(* TextbookAnalyzer._count_words: the substitutions applied to one file.   *)
(***************************************************************************)

\* r'\A---[\s\S]*?---'
FrontMatterEnd(s, i) ==
    IF i # 1 \/ ~MatchAt(s, 1, Hy3) THEN 0
    ELSE LET j == Find(s, Hy3, 4) IN IF j = 0 THEN 0 ELSE j + 2

\* r'```[\s\S]*?```'
FencedEnd(s, i) ==
    IF ~MatchAt(s, i, Fence) THEN 0
    ELSE LET j == Find(s, Fence, i + 3) IN IF j = 0 THEN 0 ELSE j + 2

IsBacktick(c) == c = Backtick

\* r'`[^`\n]*`': a span that may not cross a line break
InlineCodeEnd_SameLine(s, i) ==
    IF s[i] # Backtick THEN 0
    ELSE LET j == FindChar(IsBacktick, s, i + 1)
         IN  IF j = 0 \/ \E k \in (i + 1)..(j - 1) : s[k] = "\n" THEN 0 ELSE j

\* r'`[^`]*`'
InlineCodeEnd(s, i) ==
    IF s[i] # Backtick THEN 0 ELSE FindChar(IsBacktick, s, i + 1)

IsGt(c) == c = ">"

\* r'<[^>]+>'
HtmlTagEnd(s, i) ==
    IF s[i] # "<" THEN 0
    ELSE LET j == FindChar(IsGt, s, i + 1) IN IF j > i + 1 THEN j ELSE 0

\* the end of the run of characters satisfying P that starts at i (i - 1 when empty)
RunEnd(P(_), s, i) ==
    LET stop == {j \in i..Len(s) : ~P(s[j])}
    IN  IF stop = {} THEN Len(s) ELSE Min(stop) - 1

NonSpace(c) == ~IsSpace(c)

\* r'http[s]?://\S+'
UrlEnd(s, i) ==
    LET k == IF MatchAt(s, i, <<"h","t","t","p","s",":","/","/">>) THEN i + 8
             ELSE IF MatchAt(s, i, <<"h","t","t","p",":","/","/">>) THEN i + 7
             ELSE 0
    IN  IF k = 0 THEN 0
        ELSE LET e == RunEnd(NonSpace, s, k) IN IF e >= k THEN e ELSE 0

\* r'\s+'
SpacesEnd(s, i) == IF IsSpace(s[i]) THEN RunEnd(IsSpace, s, i) ELSE 0

\* len(content.strip().split())
CountTokens(s) ==
    Cardinality({i \in 1..Len(s) : ~IsSpace(s[i]) /\ (i = 1 \/ IsSpace(s[i - 1]))})

StripFrontMatter(s) == ReSub(FrontMatterEnd, <<>>, s, 1)
StripFenced(s) == ReSub(FencedEnd, <<>>, s, 1)
StripInlineCode(s) == ReSub(InlineCodeEnd, <<>>, s, 1)
StripHtmlTags(s) == ReSub(HtmlTagEnd, <<>>, s, 1)
StripUrls(s) == ReSub(UrlEnd, <<>>, s, 1)
NormalizeSpaces(s) == ReSub(SpacesEnd, <<" ">>, s, 1)

\* the words one readable file adds to total_words
FileWords(content) ==
    CountTokens(NormalizeSpaces(StripUrls(StripHtmlTags(StripInlineCode(
        StripFenced(StripFrontMatter(content)))))))

(***************************************************************************)
(* The other per-file patterns.                                            *)
(***************************************************************************)

IsNewline(c) == c = "\n"

\* r'!!!.*?\n'
AdmonitionEnd(s, i) ==
    IF ~MatchAt(s, i, Bang3) THEN 0 ELSE FindChar(IsNewline, s, i + 3)

IsAlnum(c) == c \in AlnumChars

\* r'```[a-zA-Z0-9]*\n[\s\S]*?\n```'
CodeBlockEnd(s, i) ==
    IF ~MatchAt(s, i, Fence) THEN 0
    ELSE LET p == RunEnd(IsAlnum, s, i + 3) + 1
         IN  IF p > Len(s) \/ s[p] # "\n" THEN 0
             ELSE LET q == Find(s, <<"\n">> \o Fence, p + 1)
                  IN  IF q = 0 THEN 0 ELSE q + 3

\* the end of the line that holds position i: the position before the next
\* newline, or the end of the text
LineEnd(s, i) ==
    LET n == FindChar(IsNewline, s, i) IN IF n = 0 THEN Len(s) ELSE n - 1

\* r'^####\s+\S.*$' with re.MULTILINE
GlossaryTermEnd(s, i) ==
    IF ~(i = 1 \/ s[i - 1] = "\n") \/ ~MatchAt(s, i, Hash4) THEN 0
    ELSE LET e == RunEnd(IsSpace, s, i + 4)
         IN  IF e < i + 4 \/ e >= Len(s) THEN 0 ELSE LineEnd(s, e + 1)

FileAdmonitions(content) == ReCount(AdmonitionEnd, content, 1)
FileCodeBlocks(content) == ReCount(CodeBlockEnd, content, 1)
FileGlossaryTerms(content) == ReCount(GlossaryTermEnd, content, 1)

(***************************************************************************)
(* The document tree.  A node is a file or a directory under <repo>/docs,   *)
(* named by its path relative to docs (a sequence of names, each a sequence *)
(* of characters); the node with the empty path is docs itself.  text is    *)
(* what f.read() returns for the file, nlines is len(f.readlines()).        *)
(***************************************************************************)

DocsPath == <<>>
SimsPath == <<<<"s","i","m","s">>>>
GlossaryPath == <<<<"g","l","o","s","s","a","r","y",".","m","d">>>>
MdSuffix == <<".","m","d">>
PngSuffix == <<".","p","n","g">>
JpgSuffix == <<".","j","p","g">>
JsSuffix == <<".","j","s">>

Dir(path) ==
    [path |-> path, kind |-> "dir", readable |-> TRUE, text |-> <<>>, nlines |-> 0]

File(path, text) ==
    [path |-> path, kind |-> "file", readable |-> TRUE, text |-> text, nlines |-> 0]

Script(path, n) ==
    [path |-> path, kind |-> "file", readable |-> TRUE, text |-> <<>>, nlines |-> n]

Unreadable(path) ==
    [path |-> path, kind |-> "file", readable |-> FALSE, text |-> <<>>, nlines |-> 0]

\* Path.exists()
Exists(path) == \E n \in tree : n.path = path

\* Path.is_dir()
IsDir(path) == \E n \in tree : n.path = path /\ n.kind = "dir"

\* Path.name
Name(n) == n.path[Len(n.path)]

Under(n, dir) == Len(n.path) > Len(dir) /\ SubSeq(n.path, 1, Len(dir)) = dir

\* dir.glob('**/*' + suffix): every descendant whose name ends with suffix
GlobRecursive(dir, suffix) ==
    IF ~IsDir(dir) THEN {}
    ELSE {n \in tree : Under(n, dir) /\ EndsWith(Name(n), suffix)}

\* dir.glob('*'): the immediate children
GlobChildren(dir) ==
    IF ~IsDir(dir) THEN {}
    ELSE {n \in tree : Under(n, dir) /\ Len(n.path) = Len(dir) + 1}

\* open(file) and read() succeed
CanRead(n) == n.kind = "file" /\ n.readable

RECURSIVE SumOver(_, _)
SumOver(F(_), S) ==
    IF S = {} THEN 0
    ELSE LET x == CHOOSE y \in S : TRUE IN F(x) + SumOver(F, S \ {x})

\* docs_path.glob('**/*.md')
MdFiles == GlobRecursive(DocsPath, MdSuffix)

(***************************************************************************)
(* TextbookAnalyzer: the counters over the tree.                           *)
(***************************************************************************)

\* _count_microsims without the test of the leading underscore
CountMicrosims_AnyName ==
    IF ~Exists(SimsPath) THEN 0
    ELSE Cardinality({d \in GlobChildren(SimsPath) : d.kind = "dir"})

\* _count_microsims
CountMicrosims ==
    IF ~Exists(SimsPath) THEN 0
    ELSE Cardinality({d \in GlobChildren(SimsPath) :
                        d.kind = "dir" /\ ~StartsWith(Name(d), <<"_">>)})

\* _count_glossary_terms
CountGlossaryTerms ==
    IF ~Exists(GlossaryPath) THEN 0
    ELSE LET f == CHOOSE n \in tree : n.path = GlossaryPath
         IN  IF CanRead(f) THEN FileGlossaryTerms(f.text) ELSE 0

AdmonitionsOf(f) == IF CanRead(f) THEN FileAdmonitions(f.text) ELSE 0

\* _count_admonitions
CountAdmonitions == SumOver(AdmonitionsOf, MdFiles)

CodeBlocksOf(f) == IF CanRead(f) THEN FileCodeBlocks(f.text) ELSE 0

\* _count_code_blocks
CountCodeBlocks == SumOver(CodeBlocksOf, MdFiles)

LinesOf(f) == IF CanRead(f) THEN f.nlines ELSE 0

\* code_lines of one directory under sims
CodeLines(sim_dir) == SumOver(LinesOf, GlobRecursive(sim_dir, JsSuffix))

SimpleBelow == 100
MediumBelow == 300

\* the classes with <= in place of <
Classify_Inclusive(n) ==
    IF n <= SimpleBelow THEN "simple"
    ELSE IF n <= MediumBelow THEN "medium"
    ELSE "complex"

\* the class of a directory with code_lines = n
Classify(n) ==
    IF n < SimpleBelow THEN "simple"
    ELSE IF n < MediumBelow THEN "medium"
    ELSE "complex"

\* _analyze_microsim_complexity
AnalyzeMicrosimComplexity ==
    IF ~Exists(SimsPath) THEN [simple |-> 0, medium |-> 0, complex |-> 0]
    ELSE LET dirs == {d \in GlobChildren(SimsPath) : d.kind = "dir"}
             N(c) == Cardinality({d \in dirs : Classify(CodeLines(d.path)) = c})
         IN  [simple |-> N("simple"), medium |-> N("medium"), complex |-> N("complex")]

(***************************************************************************)
(* mkdocs.yml.  config.state is how open() and yaml.safe_load() end; root   *)
(* is the value safe_load returns.  A value has a tag, the characters of a  *)
(* scalar (text), and for a list its items, for a dict its keys and values  *)
(* (kids).                                                                  *)
(***************************************************************************)

YScalar(tag, text) == [tag |-> tag, text |-> text, keys |-> <<>>, kids |-> <<>>]
YNull == YScalar("null", <<>>)
YStr(text) == YScalar("str", text)
YInt(text) == YScalar("int", text)
YBool(text) == YScalar("bool", text)
YList(items) == [tag |-> "list", text |-> <<>>, keys |-> <<>>, kids |-> items]
YDict(keys, values) == [tag |-> "dict", text |-> <<>>, keys |-> keys, kids |-> values]

K_nav == <<"n","a","v">>
K_theme == <<"t","h","e","m","e">>
K_extra == <<"e","x","t","r","a">>
K_site_name == <<"s","i","t","e","_","n","a","m","e">>
K_features == <<"f","e","a","t","u","r","e","s">>
K_analytics == <<"a","n","a","l","y","t","i","c","s">>
K_provider == <<"p","r","o","v","i","d","e","r">>
K_property == <<"p","r","o","p","e","r","t","y">>
MobileTabs == <<"n","a","v","i","g","a","t","i","o","n",".","t","a","b","s",".","m","o","b","i","l","e">>

HasKey(d, k) == \E i \in DOMAIN d.keys : d.keys[i] = k

\* dict.get(k, default)
DictGet(d, k, default) ==
    IF HasKey(d, k) THEN d.kids[CHOOSE i \in DOMAIN d.keys : d.keys[i] = k]
    ELSE default

\* the load of mkdocs.yml gave a value with a get method
Loaded == config.state = "parsed" /\ config.root.tag = "dict"

\* for item in v: does not raise TypeError
Iterable(v) == v.tag \in {"list", "dict", "str"}

\* the items a for loop over v sees
Items(v) ==
    CASE v.tag = "list" -> v.kids
      [] v.tag = "dict" -> [i \in DOMAIN v.keys |-> YStr(v.keys[i])]
      [] v.tag = "str" -> [i \in DOMAIN v.text |-> YStr(<<v.text[i]>>)]
      [] OTHER -> <<>>

\* bool(v)
Truthy(v) ==
    CASE v.tag = "null" -> FALSE
      [] v.tag = "bool" -> v.text = <<"t","r","u","e">>
      [] v.tag = "int" -> v.text # <<"0">>
      [] v.tag = "str" -> v.text # <<>>
      [] v.tag = "list" -> v.kids # <<>>
      [] OTHER -> v.keys # <<>>

\* x in v; raises TypeError on None, int and bool
CanContain(v) == v.tag \in {"list", "dict", "str"}

\* the str x in v
StrIn(x, v) ==
    CASE v.tag = "list" -> \E i \in DOMAIN v.kids : v.kids[i] = YStr(x)
      [] v.tag = "dict" -> HasKey(v, x)
      [] v.tag = "str" -> x = <<>> \/ Contains(v.text, x)
      [] OTHER -> FALSE

\* get_depth of _calculate_nav_depth
RECURSIVE GetDepth(_)
GetDepth(item) ==
    IF item.tag = "dict"
    THEN 1 + Max0({GetDepth(item.kids[i]) : i \in DOMAIN item.kids})
    ELSE 0

\* _calculate_nav_depth, for an iterable nav
CalculateNavDepth(nav) ==
    LET items == Items(nav) IN Max0({GetDepth(items[i]) : i \in DOMAIN items})

\* nav_structure of _analyze_content_structure
NavStructure ==
    IF Loaded THEN DictGet(config.root, K_nav, YList(<<>>)) ELSE YList(<<>>)

\* _check_analytics_config with or in place of and: one member of the pair
\* is enough
CheckAnalyticsConfig_Either ==
    IF ~Loaded THEN FALSE
    ELSE LET extra == DictGet(config.root, K_extra, YDict(<<>>, <<>>))
         IN  IF extra.tag # "dict" THEN FALSE
             ELSE LET analytics == DictGet(extra, K_analytics, YDict(<<>>, <<>>))
                  IN  IF analytics.tag # "dict" THEN FALSE
                      ELSE \/ Truthy(DictGet(analytics, K_provider, YNull))
                           \/ Truthy(DictGet(analytics, K_property, YNull))

\* _check_analytics_config
CheckAnalyticsConfig ==
    IF ~Loaded THEN FALSE
    ELSE LET extra == DictGet(config.root, K_extra, YDict(<<>>, <<>>))
         IN  IF extra.tag # "dict" THEN FALSE
             ELSE LET analytics == DictGet(extra, K_analytics, YDict(<<>>, <<>>))
                  IN  IF analytics.tag # "dict" THEN FALSE
                      ELSE /\ Truthy(DictGet(analytics, K_provider, YNull))
                           /\ Truthy(DictGet(analytics, K_property, YNull))

\* _verify_build_config
VerifyBuildConfig ==
    IF config.state = "parsed" /\ CanContain(config.root)
    THEN [site_name |-> StrIn(K_site_name, config.root),
          theme |-> StrIn(K_theme, config.root),
          nav |-> StrIn(K_nav, config.root)]
    ELSE [site_name |-> FALSE, theme |-> FALSE, nav |-> FALSE]

\* _check_responsive_design
CheckResponsiveDesign ==
    IF ~Loaded THEN [mobile_navigation |-> FALSE]
    ELSE LET theme == DictGet(config.root, K_theme, YDict(<<>>, <<>>))
         IN  IF theme.tag # "dict" THEN [mobile_navigation |-> FALSE]
             ELSE LET features == DictGet(theme, K_features, YList(<<>>))
                  IN  [mobile_navigation |->
                          CanContain(features) /\ StrIn(MobileTabs, features)]

(***************************************************************************)
(* TextbookAnalyzer.analyze(), one action per step.                        *)
(***************************************************************************)

\* analyze() calls _get_basic_metrics(), whose dict display globs the md and
\* image files and enters _count_words(): return 0 without docs, else
\* total_words = 0 and md_files = the md files
GetBasicMetrics ==
    /\ pc = "analyze"
    /\ pending' = IF Exists(DocsPath) THEN MdFiles ELSE {}
    /\ total_words' = 0
    /\ pc' = "count_words"
    /\ UNCHANGED sites_vars
    /\ UNCHANGED <<tree, config, basic_metrics, content_structure,
                   engagement_features, metrics>>

\* the loop of _count_words with an assignment in place of the accumulation:
\* the total is the count of the file read last
CountWordsFile_LastRead ==
    /\ pc = "count_words"
    /\ \E f \in pending :
          /\ total_words' = (IF CanRead(f) THEN FileWords(f.text) ELSE total_words)
          /\ pending' = pending \ {f}
    /\ UNCHANGED sites_vars
    /\ UNCHANGED <<tree, config, pc, basic_metrics, content_structure,
                   engagement_features, metrics>>

\* one iteration of the for loop of _count_words(); glob yields the files in
\* the order of the directory listing, which is any order
CountWordsFile ==
    /\ pc = "count_words"
    /\ \E f \in pending :
          /\ total_words' = total_words + (IF CanRead(f) THEN FileWords(f.text) ELSE 0)
          /\ pending' = pending \ {f}
    /\ UNCHANGED sites_vars
    /\ UNCHANGED <<tree, config, pc, basic_metrics, content_structure,
                   engagement_features, metrics>>

\* _count_words() returns total_words; _get_basic_metrics() counts the
\* simulations and the glossary terms and returns
CountWordsReturn ==
    /\ pc = "count_words"
    /\ pending = {}
    /\ basic_metrics' =
          [markdown_files |-> Cardinality(MdFiles),
           images |-> Cardinality(GlobRecursive(DocsPath, PngSuffix))
                      + Cardinality(GlobRecursive(DocsPath, JpgSuffix)),
           word_count |-> total_words,
           microsims |-> CountMicrosims,
           glossary_terms |-> CountGlossaryTerms]
    /\ pc' = "content_structure"
    /\ UNCHANGED sites_vars
    /\ UNCHANGED <<tree, config, pending, total_words, content_structure,
                   engagement_features, metrics>>

\* _analyze_content_structure(); _calculate_nav_depth is called outside the
\* try block, and the TypeError of iterating a nav that is no iterable leaves
\* analyze()
AnalyzeContentStructure ==
    /\ pc = "content_structure"
    /\ IF Iterable(NavStructure)
       THEN /\ content_structure' =
                  [navigation_depth |-> CalculateNavDepth(NavStructure),
                   admonitions |-> CountAdmonitions,
                   code_examples |-> CountCodeBlocks]
            /\ pc' = "engagement_features"
       ELSE /\ pc' = "raised"
            /\ UNCHANGED content_structure
    /\ UNCHANGED sites_vars
    /\ UNCHANGED <<tree, config, pending, total_words, basic_metrics,
                   engagement_features, metrics>>

\* _analyze_engagement_features()
AnalyzeEngagementFeatures ==
    /\ pc = "engagement_features"
    /\ engagement_features' =
          [microsim_complexity |-> AnalyzeMicrosimComplexity,
           has_analytics |-> CheckAnalyticsConfig]
    /\ pc' = "technical_quality"
    /\ UNCHANGED sites_vars
    /\ UNCHANGED <<tree, config, pending, total_words, basic_metrics,
                   content_structure, metrics>>

\* _analyze_technical_quality(), and analyze() returns metrics
AnalyzeTechnicalQuality ==
    /\ pc = "technical_quality"
    /\ metrics' =
          [basic_metrics |-> basic_metrics,
           content_structure |-> content_structure,
           engagement_features |-> engagement_features,
           technical_quality |->
               [build_config_complete |-> VerifyBuildConfig,
                responsive_design |-> CheckResponsiveDesign]]
    /\ pc' = "done"
    /\ UNCHANGED sites_vars
    /\ UNCHANGED <<tree, config, pending, total_words, basic_metrics,
                   content_structure, engagement_features>>

Next ==
    \/ GetBasicMetrics
    \/ CountWordsFile
    \/ CountWordsReturn
    \/ AnalyzeContentStructure
    \/ AnalyzeEngagementFeatures
    \/ AnalyzeTechnicalQuality

(***************************************************************************)
(* Initial states: a repository on disk, analyze() about to be called.     *)
(***************************************************************************)

\* every concatenation of at most n of the pieces P
RECURSIVE Concats(_, _)
Concats(P, n) ==
    IF n = 0 THEN {<<>>}
    ELSE LET S == Concats(P, n - 1) IN S \cup {s \o p : s \in S, p \in P}

\* a complete mkdocs.yml of a mkdocs-material site
DefaultConfig ==
    [state |-> "parsed",
     root |-> YDict(<<K_site_name, K_theme, K_nav>>,
                    <<YStr(<<"B","o","o","k">>),
                      YDict(<<<<"n","a","m","e">>, K_features>>,
                            <<YStr(<<"m","a","t","e","r","i","a","l">>), YList(<<YStr(MobileTabs)>>)>>),
                      YList(<<YDict(<<<<"H","o","m","e">>>>, <<YStr(<<"i","n","d","e","x",".","m","d">>)>>)>>)>>)]

\* the state of the analyzer before analyze() is called, and of the other script
Idle ==
    /\ pc = "analyze"
    /\ pending = {}
    /\ total_words = 0
    /\ basic_metrics = <<>>
    /\ content_structure = <<>>
    /\ engagement_features = <<>>
    /\ metrics = <<>>
    /\ sites = <<>>
    /\ site_pc = "idle"
    /\ user_repo = <<>>
    /\ results = <<>>

MaxPieces == 5
MaxDocs == 2

WordPieces == {Hy3, <<"\n">>, <<"a">>, <<" ">>, <<Backtick>>}

\* documents and other entries that glob('**/*.md') finds
ExampleEntries ==
    { {File(<<<<"i","n","d","e","x",".","m","d">>>>, <<"-","-","-","\n","t","i","t","l","e",":"," ","x","\n","-","-","-","\n","H","e","l","l","o"," ","w","o","r","l","d">>)},
      {Dir(<<<<"c","h">>>>), File(<<<<"c","h">>, <<"a",".","m","d">>>>, <<"-","-","-","\n","t","i","t","l","e",":"," ","a","-","-","-","b","\n","-","-","-","\n","H","e","l","l","o"," ","w","o","r","l","d">>)},
      {Dir(<<<<"c","h">>>>), File(<<<<"c","h">>, <<"b",".","m","d">>>>, <<Backtick,Backtick,Backtick,"\n","c","o","d","e"," ","h","e","r","e","\n",Backtick,Backtick,Backtick>>)},
      {File(<<<<"c",".","m","d">>>>, <<"s","e","e"," ","<","b",">","x","<","/","b",">"," ","a","t"," ","h","t","t","p","s",":","/","/","x",".","y","/","z"," ","o","r"," ",Backtick,"q"," ","r",Backtick,".">>)},
      {Unreadable(<<<<"b","a","d",".","m","d">>>>)},
      {Dir(<<<<"d",".","m","d">>>>)} }

\* the trees made of docs and at most n of the entries E
TreesOf(E, n) ==
    {{Dir(DocsPath)} \cup UNION pick : pick \in {p \in SUBSET E : Cardinality(p) <= n}}

\* docs holding one document
OneDoc(name, text) == {Dir(DocsPath), File(<<name>>, text)}

InitWords ==
    /\ tree \in {OneDoc(<<"a",".","m","d">>, t) : t \in Concats(WordPieces, MaxPieces)}
               \cup TreesOf(ExampleEntries, MaxDocs)
    /\ config = DefaultConfig
    /\ Idle

SpecWords == InitWords /\ [][Next]_vars

AdmonitionPieces == {Bang3, <<"\n">>, <<"a">>, <<" ">>}

InitAdmonitions ==
    /\ tree \in {{Dir(DocsPath), Dir(<<<<"c","h">>>>), File(<<<<"c","h">>, <<"a",".","m","d">>>>, t)} :
                    t \in Concats(AdmonitionPieces, MaxPieces)}
               \cup TreesOf(ExampleEntries
                            \cup {{File(<<<<"n",".","m","d">>>>, <<"!","!","!"," ","n","o","t","e","\n"," "," "," "," ","t","e","x","t","\n","\n","s","e","e"," ","!","!","!","\n","!","!","!"," ","t","i","p">>)}},
                            MaxDocs)
    /\ config = DefaultConfig
    /\ Idle

SpecAdmonitions == InitAdmonitions /\ [][Next]_vars

GlossaryPieces == {Hash4, <<"#">>, <<"\n">>, <<"a">>, <<" ">>}

InitGlossary ==
    /\ tree \in {{Dir(DocsPath), File(GlossaryPath, t)} :
                    t \in Concats(GlossaryPieces, MaxPieces)
                          \cup {<<"#"," ","G","l","o","s","s","a","r","y","\n","\n","#","#","#","#"," ","T","e","r","m"," ","O","n","e","\n","t","e","x","t","\n","\n","#","#","#","#"," ","T","e","r","m"," ","T","w","o","\n","t","e","x","t","\n">>}}
               \cup {{Dir(DocsPath)},
                     {Dir(DocsPath), Unreadable(GlossaryPath)},
                     {Dir(DocsPath), Dir(GlossaryPath)},
                     {Dir(DocsPath), File(<<<<"i","n","d","e","x",".","m","d">>>>, <<"#","#","#","#"," ","N","o","t"," ","a"," ","t","e","r","m","\n">>)}}
    /\ config = DefaultConfig
    /\ Idle

SpecGlossary == InitGlossary /\ [][Next]_vars

(***************************************************************************)
(* The claims about the per-file patterns.                                 *)
(***************************************************************************)

\* _get_basic_metrics() has returned
BasicDone == pc \in {"content_structure", "engagement_features",
                     "technical_quality", "done", "raised"}

\* _analyze_content_structure() has returned
ContentDone == pc \in {"engagement_features", "technical_quality", "done"}

\* the k-th smallest member of the set K of numbers
Nth(K, k) == CHOOSE x \in K : Cardinality({y \in K : y < x}) = k - 1

\* the characters of s at the positions K, in order
Keep(s, K) == [k \in 1..Cardinality(K) |-> s[Nth(K, k)]]

\* the rest of the word count after the metadata block is gone
WordsAfterFrontMatter(s) ==
    CountTokens(NormalizeSpaces(StripUrls(StripHtmlTags(StripInlineCode(StripFenced(s))))))

\* the rest of the word count after the inline code spans are gone
WordsAfterInlineCode(s) == CountTokens(NormalizeSpaces(StripUrls(StripHtmlTags(s))))

\* a metadata block as C3 describes it: the first line is three hyphens, the
\* block ends with the next line that is three hyphens
FrontMatterLinesEnd(s, i) ==
    IF i # 1 \/ ~MatchAt(s, 1, Hy3 \o <<"\n">>) THEN 0
    ELSE LET C == {j \in 5..(Len(s) - 2) :
                      /\ MatchAt(s, j, Hy3)
                      /\ s[j - 1] = "\n"
                      /\ (j + 3 > Len(s) \/ s[j + 3] = "\n")}
         IN  IF C = {} THEN 0 ELSE Min(C) + 2

C3_WordsOf(f) ==
    IF CanRead(f) THEN WordsAfterFrontMatter(ReSub(FrontMatterLinesEnd, <<>>, f.text, 1))
    ELSE 0

\* C3: _count_words strips only a leading metadata block delimited by a first
\* line of three hyphens and the next line of three hyphens; three hyphens
\* inside a line do not end the block, the text after the closing line is
\* counted, and every other step counts as the code does
C3_FrontMatterByLines ==
    BasicDone => basic_metrics.word_count = SumOver(C3_WordsOf, MdFiles)

C4_SameLineWordsOf(f) ==
    IF CanRead(f)
    THEN WordsAfterInlineCode(ReSub(InlineCodeEnd_SameLine, <<>>,
                                    StripFenced(StripFrontMatter(f.text)), 1))
    ELSE 0

\* C4 as claimed: an inline code span lies on one line, so the words between
\* two backticks on different lines are counted
C4_InlineSpanOnOneLine ==
    BasicDone => basic_metrics.word_count = SumOver(C4_SameLineWordsOf, MdFiles)

\* the positions of s outside the spans made by pairing the backticks of s
\* in order, first with second, third with fourth, wherever the line breaks are
OutsideSpans(s) ==
    {k \in 1..Len(s) :
        IF Cardinality({j \in 1..(k - 1) : s[j] = Backtick}) % 2 = 1
        THEN \A j \in k..Len(s) : s[j] # Backtick
        ELSE s[k] = Backtick => \A j \in (k + 1)..Len(s) : s[j] # Backtick}

C4_PairedWordsOf(f) ==
    IF CanRead(f)
    THEN LET s == StripFenced(StripFrontMatter(f.text))
         IN  WordsAfterInlineCode(Keep(s, OutsideSpans(s)))
    ELSE 0

\* C4, amended: an inline code span runs from a backtick to the next backtick
\* whether or not a line break lies between them; the words between two such
\* backticks are removed with the span and not counted
C4_InlineSpanAcrossLines ==
    BasicDone => basic_metrics.word_count = SumOver(C4_PairedWordsOf, MdFiles)

\* a counted document where a span crosses a line break and holds a word
C4_Witness ==
    /\ pc = "done"
    /\ \E f \in MdFiles :
          /\ CanRead(f)
          /\ LET s == StripFenced(StripFrontMatter(f.text))
             IN  \E i, j \in 1..Len(s) :
                    /\ i < j
                    /\ InlineCodeEnd(s, i) = j
                    /\ i \notin OutsideSpans(s)
                    /\ \E k \in (i + 1)..(j - 1) : s[k] = "\n"
                    /\ \E k \in (i + 1)..(j - 1) : ~IsSpace(s[k])
                    /\ metrics.basic_metrics.word_count < CountTokens(s)

\* the number of lines of s that begin with p
LinesBeginningWith(s, p) ==
    Cardinality({i \in 1..Len(s) : (i = 1 \/ s[i - 1] = "\n") /\ MatchAt(s, i, p)})

C5_LinesOf(f) == IF CanRead(f) THEN LinesBeginningWith(f.text, Bang3) ELSE 0

\* C5: the admonition count is the number of lines, over all documents, that
\* begin with three exclamation marks, with or without a final newline
C5_AdmonitionsAreLines ==
    ContentDone => content_structure.admonitions = SumOver(C5_LinesOf, MdFiles)

IsBlank(c) == IsSpace(c) /\ c # "\n"

\* the line of s that starts at i is four hashes, then whitespace, then a
\* character that is no whitespace, all before the line ends
IsTermLine(s, i) ==
    /\ i = 1 \/ s[i - 1] = "\n"
    /\ MatchAt(s, i, Hash4)
    /\ LET e == RunEnd(IsBlank, s, i + 4)
       IN  e >= i + 4 /\ e < Len(s) /\ s[e + 1] # "\n"

C6_TermLines ==
    IF \E n \in tree : n.path = GlossaryPath /\ CanRead(n)
    THEN LET s == (CHOOSE n \in tree : n.path = GlossaryPath).text
         IN  Cardinality({i \in 1..Len(s) : IsTermLine(s, i)})
    ELSE 0

\* C6: the glossary-term count is the number of lines of docs/glossary.md
\* made of exactly four hashes, whitespace and a term on the same line; 0
\* without the file
C6_TermsAreLines == BasicDone => basic_metrics.glossary_terms = C6_TermLines

(***************************************************************************)
(* Repositories for the whole report: a few trees, every shape of           *)
(* mkdocs.yml.                                                              *)
(***************************************************************************)

Absent == YScalar("absent", <<>>)

\* the dict with the keys whose value is not Absent
MkDict(keys, values) ==
    LET I == {i \in DOMAIN keys : values[i] # Absent}
    IN  YDict(Keep(keys, I), Keep(values, I))

NavChoices ==
    {Absent, YNull, YInt(<<"5">>), YStr(<<"i","n","d","e","x",".","m","d">>), YList(<<>>),
     YList(<<YDict(<<<<"A">>>>, <<YList(<<YDict(<<<<"B">>>>, <<YStr(<<"p","a","g","e",".","m","d">>)>>)>>)>>)>>),
     YDict(<<<<"A">>>>, <<YStr(<<"p","a","g","e",".","m","d">>)>>)}

ThemeChoices ==
    {Absent, YNull, YStr(<<"m","a","t","e","r","i","a","l">>), YDict(<<>>, <<>>),
     YDict(<<K_features>>, <<YNull>>),
     YDict(<<K_features>>, <<YList(<<YStr(MobileTabs)>>)>>),
     YDict(<<K_features>>, <<YList(<<YStr(<<"n","a","v","i","g","a","t","i","o","n",".","t","a","b","s">>)>>)>>),
     YDict(<<K_features>>, <<YStr(MobileTabs)>>)}

Analytics(provider, property) ==
    YDict(<<K_analytics>>, <<MkDict(<<K_provider, K_property>>, <<provider, property>>)>>)

ExtraChoices ==
    {Absent, YNull, YDict(<<>>, <<>>), Analytics(YStr(<<"g","o","o","g","l","e">>), YStr(<<"G","-","1">>)),
     Analytics(YStr(<<"g","o","o","g","l","e">>), Absent)}

Configs ==
    {[state |-> "missing", root |-> YNull], [state |-> "unparsable", root |-> YNull]}
    \cup {[state |-> "parsed", root |-> r] :
             r \in {YNull, YInt(<<"5">>), YStr(<<"s","i","t","e","_","n","a","m","e",":"," ","x">>), YList(<<YStr(K_nav)>>)}}
    \cup {[state |-> "parsed",
           root |-> MkDict(<<K_site_name, K_nav, K_theme, K_extra>>, <<s, n, t, e>>)] :
             s \in {Absent, YStr(<<"B","o","o","k">>)}, n \in NavChoices, t \in ThemeChoices,
             e \in ExtraChoices}

ReportEntries ==
    { {File(<<<<"i","n","d","e","x",".","m","d">>>>, <<"-","-","-","\n","t","i","t","l","e",":"," ","x","\n","-","-","-","\n","H","e","l","l","o"," ","w","o","r","l","d">>)},
      {Unreadable(<<<<"b","a","d",".","m","d">>>>)},
      {Dir(<<<<"i","m","g">>>>), File(<<<<"i","m","g">>, <<"a",".","p","n","g">>>>, <<>>), File(<<<<"b",".","j","p","g">>>>, <<>>)},
      {Dir(SimsPath), Dir(SimsPath \o <<<<"a">>>>), Script(SimsPath \o <<<<"a">>, <<"a",".","j","s">>>>, 250)},
      {File(GlossaryPath, <<"#","#","#","#"," ","T","e","r","m"," ","O","n","e","\n","t","e","x","t","\n","\n","#","#","#","#"," ","T","e","r","m"," ","T","w","o","\n","t","e","x","t","\n">>)} }

\* no docs directory, docs that is a file, and docs with some of the entries
ReportTrees == {{}, {File(DocsPath, <<>>)}} \cup TreesOf(ReportEntries, MaxDocs)

Init ==
    /\ tree \in ReportTrees
    /\ config \in Configs
    /\ Idle

Spec == Init /\ [][Next]_vars

MaxNavDepth == 4
MaxTop == 2

\* the entries nested at most d deep, one child each
RECURSIVE Chains(_)
Chains(d) ==
    IF d = 0 THEN {YStr(<<"p","a","g","e",".","m","d">>)}
    ELSE {YStr(<<"p","a","g","e",".","m","d">>), YList(<<>>), YDict(<<>>, <<>>)}
         \cup UNION {{YList(<<c>>), YDict(<<<<"A">>>>, <<c>>)} : c \in Chains(d - 1)}

\* every sequence of at most n members of S
RECURSIVE SeqsUpTo(_, _)
SeqsUpTo(S, n) ==
    IF n = 0 THEN {<<>>}
    ELSE LET T == SeqsUpTo(S, n - 1) IN T \cup {Append(t, x) : t \in T, x \in S}

\* the values of the nav key: outlines of at most MaxTop entries, one of them
\* nested up to MaxNavDepth deep, before or after the others; a section with
\* two children; and the iterables that are no list
NavOutlines ==
    {YList(<<>>)}
    \cup UNION {{YList(<<c>> \o rest), YList(rest \o <<c>>)} :
                   c \in Chains(MaxNavDepth - 1), rest \in SeqsUpTo(Chains(1), MaxTop - 1)}
    \cup {YList(<<YDict(<<<<"A">>, <<"B">>>>, <<c1, c2>>)>>) : c1, c2 \in Chains(MaxNavDepth - 2)}
    \cup {YStr(<<"i","n","d","e","x",".","m","d">>), YDict(<<<<"A">>>>, <<YDict(<<<<"B">>>>, <<YStr(<<"p","a","g","e",".","m","d">>)>>)>>)}

InitNav ==
    /\ tree = OneDoc(<<"i","n","d","e","x",".","m","d">>, <<"H","e","l","l","o"," ","w","o","r","l","d">>)
    /\ config \in {[state |-> "parsed",
                    root |-> YDict(<<K_site_name, K_nav>>, <<YStr(<<"B","o","o","k">>), n>>)] :
                      n \in NavOutlines}
    /\ Idle

SpecNav == InitNav /\ [][Next]_vars

MaxSims == 2
MaxHelpers == 1

SimNames == {<<"a">>, <<"b">>, <<"_","t","p","l">>}
MainLines == {0, 99, 100, 250, 299, 300}
Digits == <<"1", "2", "3", "4", "5", "6", "7", "8", "9">>

\* what a directory under sims holds: a main script of main lines (-1: none)
\* and helpers one-line scripts in its lib directory
DirContents == [main : MainLines \cup {-1}, helpers : 0..MaxHelpers]

\* the nodes of the directory sims/name
SimDir(name, c, clutter) ==
    LET d == SimsPath \o <<name>>
    IN  {Dir(d)}
        \cup (IF c.main >= 0 THEN {Script(d \o <<<<"m","a","i","n",".","j","s">>>>, c.main)} ELSE {})
        \cup (IF c.helpers > 0 THEN {Dir(d \o <<<<"l","i","b">>>>)} ELSE {})
        \cup {Script(d \o <<<<"l","i","b">>, <<"h", Digits[i]>> \o JsSuffix>>, 1) : i \in 1..c.helpers}
        \cup (IF clutter
              THEN {Unreadable(d \o <<<<"b","a","d",".","j","s">>>>), Dir(d \o <<<<"d",".","j","s">>>>),
                    Script(d \o <<<<"i","n","d","e","x",".","h","t","m","l">>>>, 300)}
              ELSE {})

\* docs with a sims directory holding the directories named in D, with or
\* without files beside them
SimsTree(D, c, clutter) ==
    {Dir(DocsPath), File(<<<<"i","n","d","e","x",".","m","d">>>>, <<"H","e","l","l","o"," ","w","o","r","l","d">>), Dir(SimsPath)}
    \cup UNION {SimDir(n, c[n], clutter) : n \in D}
    \cup (IF clutter
          THEN {File(SimsPath \o <<<<"n","o","t","e","s",".","m","d">>>>, <<"a"," ","b">>),
                Script(SimsPath \o <<<<"l","o","o","s","e",".","j","s">>>>, 300)}
          ELSE {})

\* a sims directory of at most MaxSims directories, no sims directory, or a
\* file named sims
InitSims ==
    /\ \/ \E D \in {X \in SUBSET SimNames : Cardinality(X) <= MaxSims} :
             \E c \in [D -> DirContents], clutter \in BOOLEAN :
                tree = SimsTree(D, c, clutter)
       \/ tree \in {{Dir(DocsPath), File(<<<<"i","n","d","e","x",".","m","d">>>>, <<"H","e","l","l","o"," ","w","o","r","l","d">>)},
                    {Dir(DocsPath), File(<<<<"i","n","d","e","x",".","m","d">>>>, <<"H","e","l","l","o"," ","w","o","r","l","d">>),
                     File(SimsPath, <<>>)}}
    /\ config = DefaultConfig
    /\ Idle

SpecSims == InitSims /\ [][Next]_vars

\* the values of provider and of property: missing, null, empty and
\* non-empty strings and collections, a number
PairValues ==
    {Absent, YNull, YStr(<<>>), YStr(<<"g","o","o","g","l","e">>), YStr(<<"G","-","1">>),
     YInt(<<"7">>), YList(<<>>), YList(<<YStr(<<"x">>)>>), YDict(<<>>, <<>>)}

\* the values of the extra key: missing, no dict, without analytics, with an
\* analytics that is no dict, and every pair of PairValues
AnalyticsExtras ==
    {Absent, YNull, YStr(<<"x">>), YList(<<>>), YDict(<<>>, <<>>),
     YDict(<<<<"s","o","c","i","a","l">>>>, <<YList(<<>>)>>)}
    \cup {YDict(<<K_analytics>>, <<a>>) : a \in {YNull, YStr(<<"x">>), YList(<<YStr(K_provider)>>)}}
    \cup {Analytics(p, q) : p, q \in PairValues}

\* mkdocs.yml missing, unparsable, no dict, or a dict with an extra key of
\* AnalyticsExtras and a nav that can or cannot be iterated
InitAnalytics ==
    /\ tree = OneDoc(<<"i","n","d","e","x",".","m","d">>, <<"H","e","l","l","o"," ","w","o","r","l","d">>)
    /\ config \in {[state |-> "missing", root |-> YNull], [state |-> "unparsable", root |-> YNull]}
                  \cup {[state |-> "parsed", root |-> r] :
                           r \in {YNull, YInt(<<"5">>), YList(<<YStr(K_extra)>>)}}
                  \cup {[state |-> "parsed",
                         root |-> MkDict(<<K_site_name, K_nav, K_extra>>, <<YStr(<<"B","o","o","k">>), n, e>>)] :
                           n \in {Absent, YNull, YList(<<YDict(<<<<"H","o","m","e">>>>, <<YStr(<<"i","n","d","e","x",".","m","d">>)>>)>>)},
                           e \in AnalyticsExtras}
    /\ Idle

SpecAnalytics == InitAnalytics /\ [][Next]_vars

(***************************************************************************)
(* The claims about the whole report.                                      *)
(***************************************************************************)

ReportGroups == {"basic_metrics", "content_structure", "engagement_features",
                 "technical_quality"}

\* mkdocs.yml is missing, empty or unparsable, or holds no mapping
NoConfig == ~Loaded

\* C1: analyze() never raises and returns a report with the four groups,
\* whatever docs and mkdocs.yml hold; without a usable mkdocs.yml the
\* metrics read from it are the defaults
C1_AlwaysReports ==
    /\ pc # "raised"
    /\ pc = "done" =>
          /\ DOMAIN metrics = ReportGroups
          /\ NoConfig =>
                /\ metrics.content_structure.navigation_depth = 0
                /\ metrics.engagement_features.has_analytics = FALSE
                /\ metrics.technical_quality.build_config_complete
                      = [site_name |-> FALSE, theme |-> FALSE, nav |-> FALSE]
                /\ metrics.technical_quality.responsive_design
                      = [mobile_navigation |-> FALSE]

\* docs is missing or holds nothing
NoDocuments == tree \subseteq {Dir(DocsPath)}

\* C8: without docs, or with docs holding no documents, analyze() returns a
\* report with the four groups whose five basic counts are 0
C8_EmptyTreeReportsZeros ==
    NoDocuments =>
        /\ pc # "raised"
        /\ pc = "done" =>
              /\ DOMAIN metrics = ReportGroups
              /\ metrics.basic_metrics =
                    [markdown_files |-> 0, images |-> 0, word_count |-> 0,
                     microsims |-> 0, glossary_terms |-> 0]

\* the child entries of a branching entry: the items of a value that is a
\* list of entries, or the value itself
RECURSIVE ChildEntries(_, _)
ChildEntries(item, i) ==
    IF i > Len(item.kids) THEN {}
    ELSE (IF item.kids[i].tag = "list"
          THEN {item.kids[i].kids[j] : j \in DOMAIN item.kids[i].kids}
          ELSE {item.kids[i]})
         \cup ChildEntries(item, i + 1)

\* the structural depth of an entry: 0 for a leaf, 1 plus the deepest child
\* entry for a branching entry
RECURSIVE OutlineDepth(_)
OutlineDepth(item) ==
    IF item.tag = "dict"
    THEN 1 + Max0({OutlineDepth(c) : c \in ChildEntries(item, 1)})
    ELSE 0

\* C2: the navigation depth is the structural depth of the outline, the
\* maximum over the top-level entries; [{A: [{B: page.md}]}] has depth 2 and
\* the empty outline depth 0
C2_NavDepthIsOutlineDepth ==
    ContentDone =>
        content_structure.navigation_depth
            = LET items == Items(NavStructure)
              IN  Max0({OutlineDepth(items[i]) : i \in DOMAIN items})

(***************************************************************************)
(* The claims about the simulations.                                       *)
(***************************************************************************)

\* the directories that are immediate children of docs/sims
SimChildDirs ==
    {n \in tree : n.kind = "dir" /\ Len(n.path) = 2 /\ n.path[1] = SimsPath[1]}

\* C9: the simulation count is the number of immediate child directories of
\* docs/sims whose names do not begin with an underscore; files and nested
\* directories are not counted, and without docs/sims the count is 0
C9_MicrosimsAreChildDirs ==
    BasicDone =>
        basic_metrics.microsims
            = Cardinality({n \in SimChildDirs : n.path[2][1] # "_"})

\* a report on a sims directory that holds a simulation, a directory with a
\* leading underscore, a file and a nested directory
C9_Witness ==
    /\ pc = "done"
    /\ metrics.basic_metrics.microsims = 1
    /\ \E n \in SimChildDirs : n.path[2][1] = "_"
    /\ \E n \in tree : n.kind = "file" /\ Len(n.path) = 2 /\ n.path[1] = SimsPath[1]
    /\ \E n \in tree : n.kind = "dir" /\ Len(n.path) = 3 /\ n.path[1] = SimsPath[1]

\* _analyze_engagement_features() has returned
EngagementDone == pc \in {"technical_quality", "done"}

\* the lines of the readable script files anywhere below the directory d
ScriptLines(d) ==
    LET scripts == {n \in tree : /\ n.kind = "file"
                                 /\ n.readable
                                 /\ Len(n.path) > Len(d.path)
                                 /\ SubSeq(n.path, 1, Len(d.path)) = d.path
                                 /\ EndsWith(n.path[Len(n.path)], JsSuffix)}
    IN  SumOver(LinesOf, scripts)

\* C10: every directory under docs/sims is in exactly one class by the total
\* line count n of its script files: simple when n < 100, medium when
\* 100 <= n <= 299, complex when n >= 300; without docs/sims the histogram
\* is all zeros
C10_ComplexityClasses ==
    EngagementDone =>
        LET h == engagement_features.microsim_complexity
        IN  /\ h.simple = Cardinality({d \in SimChildDirs : ScriptLines(d) < 100})
            /\ h.medium = Cardinality({d \in SimChildDirs :
                                          ScriptLines(d) >= 100 /\ ScriptLines(d) <= 299})
            /\ h.complex = Cardinality({d \in SimChildDirs : ScriptLines(d) >= 300})
            /\ h.simple + h.medium + h.complex = Cardinality(SimChildDirs)
            /\ ~Exists(SimsPath) => h = [simple |-> 0, medium |-> 0, complex |-> 0]

\* a report with a directory of 299 lines counted medium and one of 300
\* lines, a script and a one-line helper, counted complex
C10_Witness ==
    /\ pc = "done"
    /\ \E d \in SimChildDirs : ScriptLines(d) = 299
    /\ \E d \in SimChildDirs :
          /\ ScriptLines(d) = 300
          /\ \E n \in tree : n.nlines = 299 /\ Len(n.path) = 3
                             /\ SubSeq(n.path, 1, 2) = d.path
    /\ metrics.engagement_features.microsim_complexity
          = [simple |-> 0, medium |-> 1, complex |-> 1]

\* C13: within one report the complexity histogram and the simulation count
\* agree on the set of simulation directories: simple + medium + complex
\* equals the microsims count of basic_metrics, for every document tree,
\* those where docs/sims has child directories with a leading underscore
\* included.
C13_HistogramMatchesCount ==
    EngagementDone =>
        LET h == engagement_features.microsim_complexity
        IN  h.simple + h.medium + h.complex = basic_metrics.microsims

\* the words _count_words adds for the entry n of the glob
WordsOf(n) == IF CanRead(n) THEN FileWords(n.text) ELSE 0

\* the sum of the per-document word counts of the documents D
SumOfWords(D) == SumOver(WordsOf, D)

\* C11: the total word count is the sum of the per-document word counts of the
\* set of documents, whatever order the loop reads them in: during the loop
\* the running total is the sum over the documents already read, and the
\* reported word_count is the sum over all of them.
C11_WordCountIsOrderFree ==
    /\ pc = "count_words" => total_words = SumOfWords(MdFiles \ pending)
    /\ BasicDone => basic_metrics.word_count = SumOfWords(MdFiles)

\* a report over two readable documents of different, positive word counts,
\* which the loop reads in either order
C11_Witness ==
    /\ pc = "done"
    /\ \E f, g \in MdFiles :
          /\ CanRead(f) /\ CanRead(g)
          /\ 0 < WordsOf(f) /\ WordsOf(f) < WordsOf(g)
          /\ metrics.basic_metrics.word_count = WordsOf(f) + WordsOf(g)

\* the value v is not empty: None, the empty string and the empty collections
\* are
NonEmpty(v) ==
    CASE v.tag = "null" -> FALSE
      [] v.tag = "str" -> v.text # <<>>
      [] v.tag = "list" -> v.kids # <<>>
      [] v.tag = "dict" -> v.keys # <<>>
      [] OTHER -> TRUE

\* the dict d holds a non-empty value under the key k
HoldsNonEmpty(d, k) == HasKey(d, k) /\ NonEmpty(DictGet(d, k, YNull))

\* the configuration has an extras descriptor whose analytics entry holds a
\* non-empty provider and a non-empty property
HasAnalyticsPair ==
    /\ config.state = "parsed"
    /\ config.root.tag = "dict"
    /\ HasKey(config.root, K_extra)
    /\ LET extra == DictGet(config.root, K_extra, YNull)
       IN  /\ extra.tag = "dict"
           /\ HasKey(extra, K_analytics)
           /\ LET analytics == DictGet(extra, K_analytics, YNull)
              IN  /\ analytics.tag = "dict"
                  /\ HoldsNonEmpty(analytics, K_provider)
                  /\ HoldsNonEmpty(analytics, K_property)

RECURSIVE Split(_, _)
Split(s, c) ==
    LET C == {j \in 1..Len(s) : s[j] = c}
    IN  IF C = {} THEN <<s>>
        ELSE <<SubSeq(s, 1, Min(C) - 1)>> \o Split(SubSeq(s, Min(C) + 1, Len(s)), c)

\* str.strip(c)
Strip(s, c) ==
    LET C == {j \in 1..Len(s) : s[j] # c}
    IN  IF C = {} THEN <<>> ELSE SubSeq(s, Min(C), Max0(C))

\* str.replace(old, new)
Replace(s, old, new) ==
    LET OldEnd(t, i) == IF MatchAt(t, i, old) THEN i + Len(old) - 1 ELSE 0
    IN  ReSub(OldEnd, new, s, 1)

\* None, and a str
None == [none |-> TRUE, str |-> <<>>]
Some(s) == [none |-> FALSE, str |-> s]

HTTPS == <<"h","t","t","p","s",":","/","/">>
GITHUB_PREFIX == <<"h","t","t","p","s",":","/","/","g","i","t","h","u","b",".","c","o","m","/">>
GITHUB_IO == <<".","g","i","t","h","u","b",".","i","o","/">>

\* infer_github_user_repo(url)
InferGithubUserRepo(url) ==
    IF StartsWith(url, GITHUB_PREFIX)
    THEN LET path == SubSeq(url, Len(GITHUB_PREFIX) + 1, Len(url))
             parts == Split(Strip(path, "/"), "/")
         IN  IF Len(parts) >= 2 THEN <<Some(parts[1]), Some(parts[2])>>
             ELSE <<None, None>>
    ELSE IF Contains(url, GITHUB_IO)
    THEN LET remainder == Replace(url, HTTPS, <<>>)
             parts == Split(remainder, "/")
         IN  IF Len(parts) >= 2 /\ EndsWith(parts[1], GITHUB_IO)
             THEN <<Some(Replace(parts[1], GITHUB_IO, <<>>)), Some(Strip(parts[2], "/"))>>
             ELSE <<None, None>>
    ELSE <<None, None>>

\* what raw.githubusercontent.com answers for the files the checks fetch:
\* "none" (no 200, or the request failed), "plain" (the file, without the text
\* the check looks for) or "marked" (the file with that text)
Remotes ==
    [license_md : {"none", "plain"}, License_md : {"none", "plain"},
     glossary_md : {"none", "plain"}, Glossary_md : {"none", "plain"},
     mkdocs_yml : {"none", "plain", "marked"},
     extras_css : {"none", "plain", "marked"},
     extras_js : {"none", "plain", "marked"}]

PassIf(b) == IF b THEN "PASS" ELSE "FAIL"

\* check_license, check_glossary, check_admonitions, check_resize_logo and
\* check_admonition_prompt against the remote r
Checks(r) ==
    [license |-> PassIf(r.license_md # "none" \/ r.License_md # "none"),
     glossary |-> PassIf(r.glossary_md # "none" \/ r.Glossary_md # "none"),
     admonitions |-> PassIf(r.mkdocs_yml = "marked"),
     resize_logo |-> PassIf(r.extras_css = "marked"),
     admonition_prompt |-> PassIf(r.extras_js = "marked")]

\* main(): the next site of sites.json, its github_repo parsed
MainNextSite ==
    /\ site_pc = "loop"
    /\ sites # <<>>
    /\ user_repo' = InferGithubUserRepo(Head(sites))
    /\ site_pc' = "inferred"
    /\ UNCHANGED <<sites, results>>
    /\ UNCHANGED analyzer_vars

\* main(): user or repo is None, the site is skipped
MainUnable ==
    /\ site_pc = "inferred"
    /\ user_repo[1].none \/ user_repo[2].none
    /\ sites' = Tail(sites)
    /\ site_pc' = "loop"
    /\ UNCHANGED <<user_repo, results>>
    /\ UNCHANGED analyzer_vars

\* main(): the five checks of the site, printed
MainChecks ==
    /\ site_pc = "inferred"
    /\ ~user_repo[1].none /\ ~user_repo[2].none
    /\ \E r \in Remotes : results' = Checks(r)
    /\ sites' = Tail(sites)
    /\ site_pc' = "loop"
    /\ UNCHANGED user_repo
    /\ UNCHANGED analyzer_vars

\* main(): the loop over the sites ends
MainExit ==
    /\ site_pc = "loop"
    /\ sites = <<>>
    /\ site_pc' = "done"
    /\ UNCHANGED <<sites, user_repo, results>>
    /\ UNCHANGED analyzer_vars

NextSites ==
    \/ MainNextSite
    \/ MainUnable
    \/ MainChecks
    \/ MainExit

MaxUrlPieces == 5
MaxSites == 2

UrlPieces == {HTTPS, <<"g","i","t","h","u","b",".","c","o","m","/">>, GITHUB_IO, <<"u">>, <<"r">>, <<"/">>}

ExampleUrls ==
    {<<"h","t","t","p","s",":","/","/","d","m","c","c","r","e","a","r","y",".","g","i","t","h","u","b",".","i","o","/","m","i","c","r","o","s","i","m","s","/">>,
     <<"h","t","t","p","s",":","/","/","g","i","t","h","u","b",".","c","o","m","/","d","m","c","c","r","e","a","r","y","/","m","k","d","o","c","s","-","f","o","r","-","i","n","t","e","l","l","i","g","e","n","t","-","t","e","x","t","b","o","o","k","s">>,
     <<"h","t","t","p","s",":","/","/","g","i","t","h","u","b",".","c","o","m","/","d","m","c","c","r","e","a","r","y">>,
     <<"h","t","t","p",":","/","/","e","x","a","m","p","l","e",".","o","r","g","/","b","o","o","k">>}

\* sites.json has been loaded: its github_repo values
InitSites ==
    /\ sites \in {<<u>> : u \in Concats(UrlPieces, MaxUrlPieces)}
                \cup SeqsUpTo(ExampleUrls, MaxSites)
    /\ site_pc = "loop"
    /\ user_repo = <<None, None>>
    /\ results = <<>>
    /\ tree = {}
    /\ config = [state |-> "missing", root |-> YNull]
    /\ pc = "analyze"
    /\ pending = {}
    /\ total_words = 0
    /\ basic_metrics = <<>>
    /\ content_structure = <<>>
    /\ engagement_features = <<>>
    /\ metrics = <<>>

SpecSites == InitSites /\ [][NextSites]_vars

\* url is https://<user>.github.io/<repo>/ with a user and a repo
IsPagesUrl(url) ==
    /\ StartsWith(url, HTTPS)
    /\ LET parts == Split(SubSeq(url, Len(HTTPS) + 1, Len(url)), "/")
       IN  /\ Len(parts) = 3
           /\ parts[3] = <<>>
           /\ parts[2] # <<>>
           /\ EndsWith(parts[1], <<".","g","i","t","h","u","b",".","i","o">>)
           /\ Len(parts[1]) > Len(<<".","g","i","t","h","u","b",".","i","o">>)

PagesUser(url) ==
    LET host == Split(SubSeq(url, Len(HTTPS) + 1, Len(url)), "/")[1]
    IN  SubSeq(host, 1, Len(host) - Len(<<".","g","i","t","h","u","b",".","i","o">>))

PagesRepo(url) == Split(SubSeq(url, Len(HTTPS) + 1, Len(url)), "/")[2]

\* url is https://github.com/<user>/<repo> with a user and a repo
IsRepoUrl(url) ==
    /\ StartsWith(url, GITHUB_PREFIX)
    /\ LET parts == Split(SubSeq(url, Len(GITHUB_PREFIX) + 1, Len(url)), "/")
       IN  Len(parts) = 2 /\ parts[1] # <<>> /\ parts[2] # <<>>

\* C7: infer_github_user_repo gives (user, repo) for
\* https://<user>.github.io/<repo>/ and for https://github.com/<user>/<repo>,
\* and (None, None) only for a url of neither form
C7_InfersUserAndRepo ==
    site_pc = "inferred" =>
        LET url == Head(sites)
        IN  /\ IsPagesUrl(url) =>
                  user_repo = <<Some(PagesUser(url)), Some(PagesRepo(url))>>
            /\ IsRepoUrl(url) =>
                  LET parts == Split(SubSeq(url, Len(GITHUB_PREFIX) + 1, Len(url)), "/")
                  IN  user_repo = <<Some(parts[1]), Some(parts[2])>>
            /\ user_repo = <<None, None>> => ~IsPagesUrl(url) /\ ~IsRepoUrl(url)

====
